---- MODULE Spec2Model ----
(***************************************************************************)
(* Chord analysis of chord-ai: the sliding-window analysis and merge pass  *)
(* of AudioAnalyzer (src/lib/audio-analyzer.ts), its template matcher and  *)
(* chroma extraction, the key estimator detectKey with its callers, the    *)
(* tempo estimator estimateTempo, and transposeChord of                    *)
(* src/lib/music-theory.ts under the controls of the preview page.         *)
(*                                                                         *)
(* Abstractions.  Time is counted in whole seconds.  The samples of one    *)
(* second of audio are represented by what extractChromaFeatures           *)
(* accumulates from them: the magnitude, per pitch class, of the spectrum  *)
(* bins between 80 Hz and 2000 Hz (a 12-tuple of naturals, position p+1    *)
(* for pitch class p).  A correlation c >= 0 is represented by its square  *)
(* as a fraction [n, d]; the order of squares is the order of the values.  *)
(***************************************************************************)
EXTENDS Integers, Sequences, FiniteSets, TLC

VARIABLES
  pc,              \* position in the operation being run
  audioBuffer,     \* analyzeAudioBuffer: the decoded audio
  time,            \* analyzeAudioBuffer: start of the next window
  chords,          \* analyzeAudioBuffer: the confident detections
  i,               \* mergeConsecutiveChords: loop index
  currentChord,    \* mergeConsecutiveChords: the chord being extended
  merged,          \* mergeConsecutiveChords: the merged list so far
  result,          \* what analyzeAudioBuffer's promise settles to
  progression,     \* chord names handed to detectKey by its callers
  key,             \* the key stored in the analysis
  chroma,          \* detectChordFromChroma: its argument
  entry,           \* detectChordFromChroma: templates examined so far
  bestChord,       \* detectChordFromChroma
  bestCorrelation, \* detectChordFromChroma
  detected,        \* detectChordFromChroma: the returned record
  onsets,          \* estimateTempo: the start times of its argument
  tempo,           \* estimateTempo: the returned BPM (0 before it returns)
  audioSamples,    \* extractChromaFeatures: its argument audioData
  templateEntry,   \* calculateCorrelation: number of the template compared
  cosine,          \* calculateCorrelation: the returned double
  run,             \* which of two successive analyses is running
  first,           \* what the first of two successive analyses returned
  waveforms,       \* the buffers of two concurrent analyses
  locals,          \* the local variables of two concurrent analyses
  surviving,       \* estimateTempo: filteredIntervals, sorted in place
  rawBpm,          \* estimateTempo: bpm as assigned at line 431
  currentBpm,      \* estimateTempo: the variable bpm
  transpose,       \* PreviewClient: state transpose
  capoPosition,    \* PreviewClient: state capoPosition
  chordName,       \* PreviewClient: the name of a chord of the analysis
  transposedName   \* PreviewClient: what transposeChord returned for it

vars == <<pc, audioBuffer, time, chords, i, currentChord, merged, result,
          progression, key, chroma, entry, bestChord, bestCorrelation,
          detected, onsets, tempo, audioSamples, templateEntry, cosine,
          run, first, waveforms, locals, surviving, rawBpm, currentBpm,
          transpose, capoPosition, chordName, transposedName>>

analyzerVars == <<audioBuffer, time, chords, i, currentChord, merged, result>>

keyVars == <<progression, key>>

matcherVars == <<chroma, entry, bestChord, bestCorrelation, detected>>

tempoVars == <<onsets, tempo>>

correlationVars == <<templateEntry, cosine>>

twiceVars == <<run, first>>

pairVars == <<waveforms, locals>>

stepVars == <<surviving, rawBpm, currentBpm>>

previewVars == <<transpose, capoPosition, chordName, transposedName>>

\* What the analysis, the key estimation and the matcher leave alone.
otherVars == <<tempoVars, audioSamples, correlationVars, twiceVars, pairVars,
               stepVars, previewVars>>

----------------------------------------------------------------------------
(* Bounds *)

MaxSeconds == 6
MaxChords == 6
MaxTones == 3
MaxOnsets == 5
MaxBlocks == 5
PairSeconds == 4
MaxNames == 4
MaxSegments == 7

----------------------------------------------------------------------------
(* Pitch classes and frame energies *)

PitchClasses == 0 .. 11

Tones(S) == [p \in 1 .. 12 |-> IF (p - 1) \in S THEN 1 ELSE 0]

Silence == Tones({})

ZeroVector == [p \in 1 .. 12 |-> 0]

VecAdd(a, b) == [p \in 1 .. 12 |-> a[p] + b[p]]

RECURSIVE Sum12(_, _)
Sum12(f, p) == IF p = 0 THEN 0 ELSE f[p] + Sum12(f, p - 1)

RECURSIVE Max12(_, _)
Max12(f, p) ==
  IF p = 0 THEN 0
  ELSE LET m == Max12(f, p - 1) IN IF f[p] > m THEN f[p] ELSE m

----------------------------------------------------------------------------
(* Correlations as squared fractions *)

RECURSIVE SumSeq(_, _)
SumSeq(s, k) == IF k = 0 THEN 0 ELSE s[k] + SumSeq(s, k - 1)

ZeroCorrelation == [n |-> 0, d |-> 1]

OneCorrelation == [n |-> 1, d |-> 1]

Greater(a, b) == a.n * b.d > b.n * a.d

MathMin(a, b) == IF Greater(a, b) THEN b ELSE a

MathMax(a, b) == IF Greater(b, a) THEN b ELSE a

ConfidenceThreshold == [n |-> 9, d |-> 100]

----------------------------------------------------------------------------
(* AudioAnalyzer.detectChordFromChroma and calculateCorrelation *)

chordTemplates == <<
  [name |-> "C",   template |-> <<1, 0, 0, 0, 1, 0, 0, 1, 0, 0, 0, 0>>],
  [name |-> "C#",  template |-> <<0, 1, 0, 0, 0, 1, 0, 0, 1, 0, 0, 0>>],
  [name |-> "D",   template |-> <<0, 0, 1, 0, 0, 0, 1, 0, 0, 1, 0, 0>>],
  [name |-> "D#",  template |-> <<0, 0, 0, 1, 0, 0, 0, 1, 0, 0, 1, 0>>],
  [name |-> "E",   template |-> <<0, 0, 0, 0, 1, 0, 0, 0, 1, 0, 0, 1>>],
  [name |-> "F",   template |-> <<1, 0, 0, 0, 0, 1, 0, 0, 0, 1, 0, 0>>],
  [name |-> "F#",  template |-> <<0, 1, 0, 0, 0, 0, 1, 0, 0, 0, 1, 0>>],
  [name |-> "G",   template |-> <<0, 0, 1, 0, 0, 0, 0, 1, 0, 0, 0, 1>>],
  [name |-> "G#",  template |-> <<1, 0, 0, 1, 0, 0, 0, 0, 1, 0, 0, 0>>],
  [name |-> "A",   template |-> <<0, 1, 0, 0, 1, 0, 0, 0, 0, 1, 0, 0>>],
  [name |-> "A#",  template |-> <<0, 0, 1, 0, 0, 1, 0, 0, 0, 0, 1, 0>>],
  [name |-> "B",   template |-> <<0, 0, 0, 1, 0, 0, 1, 0, 0, 0, 0, 1>>],
  [name |-> "Am",  template |-> <<1, 0, 0, 1, 0, 0, 0, 1, 0, 0, 0, 0>>],
  [name |-> "A#m", template |-> <<0, 1, 0, 0, 1, 0, 0, 0, 1, 0, 0, 0>>],
  [name |-> "Bm",  template |-> <<0, 0, 1, 0, 0, 1, 0, 0, 0, 1, 0, 0>>],
  [name |-> "Cm",  template |-> <<1, 0, 0, 1, 0, 0, 0, 1, 0, 0, 0, 0>>],
  [name |-> "C#m", template |-> <<0, 1, 0, 0, 1, 0, 0, 0, 1, 0, 0, 0>>],
  [name |-> "Dm",  template |-> <<0, 0, 1, 0, 0, 1, 0, 0, 0, 1, 0, 0>>],
  [name |-> "D#m", template |-> <<0, 0, 0, 1, 0, 0, 1, 0, 0, 0, 1, 0>>],
  [name |-> "Em",  template |-> <<0, 0, 0, 0, 1, 0, 0, 1, 0, 0, 0, 1>>],
  [name |-> "Fm",  template |-> <<1, 0, 0, 0, 0, 1, 0, 0, 1, 0, 0, 0>>],
  [name |-> "F#m", template |-> <<0, 1, 0, 0, 0, 0, 1, 0, 0, 1, 0, 0>>],
  [name |-> "Gm",  template |-> <<0, 0, 1, 0, 0, 0, 0, 1, 0, 0, 1, 0>>],
  [name |-> "G#m", template |-> <<0, 0, 0, 1, 0, 0, 0, 0, 1, 0, 0, 1>>] >>

\* A chroma vector is [v, den]: entry p is v[p] / den.  The denominator
\* cancels in the quotient of line 212, so only the numerators appear here.
\* calculateCorrelationDegenerate is the variant that scores a vector of
\* norm 0 as a perfect match instead of 0.
calculateCorrelationDegenerate(c, template) ==
  LET dotProduct        == Sum12([p \in 1 .. 12 |-> c.v[p] * template[p]], 12)
      chromaMagnitude   == Sum12([p \in 1 .. 12 |-> c.v[p] * c.v[p]], 12)
      templateMagnitude == Sum12([p \in 1 .. 12 |-> template[p] * template[p]], 12)
  IN  IF chromaMagnitude = 0 \/ templateMagnitude = 0
      THEN OneCorrelation
      ELSE [n |-> dotProduct * dotProduct,
            d |-> chromaMagnitude * templateMagnitude]
calculateCorrelation(c, template) ==
  LET dotProduct        == Sum12([p \in 1 .. 12 |-> c.v[p] * template[p]], 12)
      chromaMagnitude   == Sum12([p \in 1 .. 12 |-> c.v[p] * c.v[p]], 12)
      templateMagnitude == Sum12([p \in 1 .. 12 |-> template[p] * template[p]], 12)
  IN  IF chromaMagnitude = 0 \/ templateMagnitude = 0
      THEN ZeroCorrelation
      ELSE [n |-> dotProduct * dotProduct,
            d |-> chromaMagnitude * templateMagnitude]

\* One iteration of the loop of lines 182-188 on template number e.
\* MatchTemplateLast is the variant that replaces the best match on an equal
\* score too, so that the last of several equal templates wins.
MatchTemplateLast(best, c, e) ==
  LET correlation == calculateCorrelation(c, chordTemplates[e].template)
  IN  IF ~Greater(best.correlation, correlation)
      THEN [chord |-> chordTemplates[e].name, correlation |-> correlation]
      ELSE best
MatchTemplate(best, c, e) ==
  LET correlation == calculateCorrelation(c, chordTemplates[e].template)
  IN  IF Greater(correlation, best.correlation)
      THEN [chord |-> chordTemplates[e].name, correlation |-> correlation]
      ELSE best

\* The values of bestChord and bestCorrelation on entry to the loop and
\* after each of its first e iterations, in order.
RECURSIVE BestAfter(_, _)
BestAfter(c, e) ==
  IF e = 0 THEN << [chord |-> "C", correlation |-> ZeroCorrelation] >>
  ELSE LET earlier == BestAfter(c, e - 1)
       IN  Append(earlier, MatchTemplate(earlier[e], c, e))

MatchTemplates(c, e) == BestAfter(c, e)[e + 1]

detectChordFromChroma(c) ==
  LET best == MatchTemplates(c, Len(chordTemplates))
  IN  [chord |-> best.chord,
       confidence |-> MathMin(best.correlation, OneCorrelation)]

----------------------------------------------------------------------------
(* AudioAnalyzer.extractChromaFeatures *)

RECURSIVE Accumulate(_, _)
Accumulate(frames, k) ==
  IF k = 0 THEN ZeroVector ELSE VecAdd(Accumulate(frames, k - 1), frames[k])

extractChromaFeatures(audioData) ==
  LET acc       == Accumulate(audioData, Len(audioData))
      maxChroma == Max12(acc, 12)
  IN  IF maxChroma > 0 THEN [v |-> acc, den |-> maxChroma]
      ELSE [v |-> acc, den |-> 1]

----------------------------------------------------------------------------
(* AudioAnalyzer.analyzeAudioBuffer *)

AnalysisWindowDuration == 2

AnalysisHopDuration == 1

\* channelData.slice(startSample, endSample), in seconds of audio.  With a
\* sample rate <= 0 both sample indices are <= 0 and the slice is empty.
\* The loop bound is the duration the buffer reports (line 28), whatever its
\* sample rate.
Slice(buffer, start, end) ==
  IF buffer.sampleRate <= 0 THEN << >>
  ELSE SubSeq(buffer.channelData, start + 1, end)

LoopCondition(t, duration) == t < duration - AnalysisWindowDuration

\* time += analysisHopDuration, line 44.
Stay(t) == t
Advance(t) == t + AnalysisHopDuration

ConfidentAlways(confidence) == TRUE
Confident(confidence) == Greater(confidence, ConfidenceThreshold)

SameChordContiguous(a, b) == a.name = b.name /\ a.time = b.time + b.duration
SameChord(a, b) == a.name = b.name

ExtendReversed(current, next) ==
  [current EXCEPT
     !.duration = current.time - (next.time + next.duration),
     !.confidence = MathMax(current.confidence, next.confidence)]
ExtendWithLast(current, next) ==
  [current EXCEPT
     !.duration = next.time + next.duration - current.time,
     !.confidence = next.confidence]
Extend(current, next) ==
  [current EXCEPT
     !.duration = next.time + next.duration - current.time,
     !.confidence = MathMax(current.confidence, next.confidence)]

Push(list, c) == Append(list, c)

\* The segment of lines 56-61 for the window starting at t.
DetectionWindowRelative(chordResult, t) ==
  [name |-> chordResult.chord, time |-> 0,
   duration |-> AnalysisWindowDuration, confidence |-> chordResult.confidence]
Detection(chordResult, t) ==
  [name |-> chordResult.chord, time |-> t,
   duration |-> AnalysisWindowDuration, confidence |-> chordResult.confidence]

FrameEnergies == {Silence, Tones({0, 4, 7}), Tones({5, 9, 0})}

SampleRates == {0, 44100}

RECURSIVE SeqsUpTo(_, _)
SeqsUpTo(S, n) ==
  IF n = 0 THEN {<< >>}
  ELSE LET shorter == SeqsUpTo(S, n - 1)
       IN  shorter \cup {Append(s, x) : s \in {q \in shorter : Len(q) = n - 1}, x \in S}

AudioBuffers ==
  {[sampleRate |-> r, duration |-> Len(d), channelData |-> d] :
     r \in SampleRates, d \in SeqsUpTo(FrameEnergies, MaxSeconds)}

NoChord == [name |-> "", time |-> 0, duration |-> 0, confidence |-> ZeroCorrelation]

NoChroma == [v |-> ZeroVector, den |-> 1]

Pending == [status |-> "pending", chords |-> << >>]

NoResult == [chord |-> "", confidence |-> ZeroCorrelation]

AnalyzerIdle ==
  /\ audioBuffer = [sampleRate |-> 44100, duration |-> 0, channelData |-> << >>]
  /\ time = 0
  /\ chords = << >>
  /\ i = 0
  /\ currentChord = NoChord
  /\ merged = << >>
  /\ result = Pending

KeyIdle ==
  /\ progression = << >>
  /\ key = ""

MatcherIdle ==
  /\ chroma = NoChroma
  /\ entry = 0
  /\ bestChord = ""
  /\ bestCorrelation = ZeroCorrelation
  /\ detected = NoResult

TempoIdle ==
  /\ onsets = << >>
  /\ tempo = 0

ChromaIdle == audioSamples = << >>

CorrelationIdle ==
  /\ templateEntry = 0
  /\ cosine = [m |-> 0, e |-> 0]

TwiceIdle ==
  /\ run = 1
  /\ first = [chords |-> << >>, key |-> "", tempo |-> 0]

PairIdle ==
  /\ waveforms = << >>
  /\ locals = << >>

StepsIdle ==
  /\ surviving = << >>
  /\ rawBpm = [n |-> 0, d |-> 1]
  /\ currentBpm = [n |-> 0, d |-> 1]

PreviewIdle ==
  /\ transpose = 0
  /\ capoPosition = 0
  /\ chordName = << >>
  /\ transposedName = << >>

OthersIdle ==
  /\ TempoIdle
  /\ ChromaIdle
  /\ CorrelationIdle
  /\ TwiceIdle
  /\ PairIdle
  /\ StepsIdle
  /\ PreviewIdle

Init ==
  /\ pc = "windows"
  /\ audioBuffer \in AudioBuffers
  /\ time = 0
  /\ chords = << >>
  /\ i = 0
  /\ currentChord = NoChord
  /\ merged = << >>
  /\ result = Pending
  /\ KeyIdle
  /\ MatcherIdle
  /\ OthersIdle

\* One iteration of the window loop, lines 44-63.
AnalyzeWindow ==
  /\ pc = "windows"
  /\ LoopCondition(time, audioBuffer.duration)
  /\ LET windowData   == Slice(audioBuffer, time, time + AnalysisWindowDuration)
         chromaVector == extractChromaFeatures(windowData)
         chordResult  == detectChordFromChroma(chromaVector)
     IN  chords' = IF Confident(chordResult.confidence)
                   THEN Push(chords, Detection(chordResult, time))
                   ELSE chords
  /\ time' = Advance(time)
  /\ UNCHANGED <<pc, audioBuffer, i, currentChord, merged, result,
                 stepVars, previewVars>>
  /\ UNCHANGED <<keyVars, matcherVars, otherVars>>

\* The loop ends and mergeConsecutiveChords starts, lines 66, 227-236.
StartMerge ==
  /\ pc = "windows"
  /\ ~LoopCondition(time, audioBuffer.duration)
  /\ IF Len(chords) = 0
     THEN /\ pc' = "done"
          /\ result' = [status |-> "resolved", chords |-> << >>]
          /\ UNCHANGED <<i, currentChord,
                 stepVars, previewVars>>
     ELSE /\ pc' = "merge"
          /\ currentChord' = chords[1]
          /\ i' = 1
          /\ UNCHANGED result
  /\ UNCHANGED <<audioBuffer, time, chords, merged,
                 stepVars, previewVars>>
  /\ UNCHANGED <<keyVars, matcherVars, otherVars>>

\* One iteration of the merge loop, lines 238-248 (chords[i] is 0-based there).
\* currentChord aliases an element of chords, which the extension also
\* changes; the loop only reads later elements, so chords is left as pushed.
MergeStep ==
  /\ pc = "merge"
  /\ i < Len(chords)
  /\ IF SameChord(chords[i + 1], currentChord)
     THEN /\ currentChord' = Extend(currentChord, chords[i + 1])
          /\ UNCHANGED merged
     ELSE /\ merged' = Push(merged, currentChord)
          /\ currentChord' = chords[i + 1]
  /\ i' = i + 1
  /\ UNCHANGED <<pc, audioBuffer, time, chords, result,
                 stepVars, previewVars>>
  /\ UNCHANGED <<keyVars, matcherVars, otherVars>>

\* The last chord is pushed and the list returned, lines 250-251.
FinishMerge ==
  /\ pc = "merge"
  /\ ~(i < Len(chords))
  /\ merged' = Push(merged, currentChord)
  /\ result' = [status |-> "resolved", chords |-> merged']
  /\ pc' = "done"
  /\ UNCHANGED <<audioBuffer, time, chords, i, currentChord,
                 stepVars, previewVars>>
  /\ UNCHANGED <<keyVars, matcherVars, otherVars>>

Next == AnalyzeWindow \/ StartMerge \/ MergeStep \/ FinishMerge

Spec == Init /\ [][Next]_vars

----------------------------------------------------------------------------
(* Properties of the analysis and the merge pass *)

Returned == pc = "done" /\ result.status = "resolved"

Covers(c, s) == c.time <= s /\ s < c.time + c.duration

\* C1: the list returned by the merge pass has no two adjacent segments
\* with the same name (and neither has the list being built).
C1_MergeInvariant ==
  /\ \A k \in 1 .. Len(merged) - 1 : merged[k].name # merged[k + 1].name
  /\ \A k \in 1 .. Len(result.chords) - 1 :
       result.chords[k].name # result.chords[k + 1].name

\* Two detections were merged into one segment and the result has two or
\* more segments.
C1_Witness ==
  /\ Returned
  /\ Len(result.chords) >= 2
  /\ Len(result.chords) < Len(chords)

\* C2: consecutive returned segments do not overlap:
\* a.time + a.duration <= b.time.
C2_NonOverlapping ==
  Returned =>
    \A k \in 1 .. Len(result.chords) - 1 :
      result.chords[k].time + result.chords[k].duration
        <= result.chords[k + 1].time

\* C3: the start times of the returned segments are strictly increasing.
C3_TimesIncreasing ==
  Returned =>
    \A k \in 1 .. Len(result.chords) - 1 :
      result.chords[k].time < result.chords[k + 1].time

\* Three or more segments were returned, one of them merged.
C3_Witness ==
  /\ Returned
  /\ Len(result.chords) >= 3
  /\ \E k \in 1 .. Len(result.chords) :
       result.chords[k].duration > AnalysisWindowDuration

\* C4: every second covered by a returned segment is covered by one of the
\* confident detections, so a gap without detections stays uncovered.
C4_GapsStayUncovered ==
  Returned =>
    \A k \in 1 .. Len(result.chords) :
      \A s \in 0 .. MaxSeconds + AnalysisWindowDuration :
        Covers(result.chords[k], s) =>
          \E j \in 1 .. Len(chords) : Covers(chords[j], s)

\* C5: with no samples, or a sample rate <= 0, the analysis fails with an
\* EmptyInputError and produces no chord list.
C5_EmptyInputFails ==
  (pc = "done" /\ (Len(audioBuffer.channelData) = 0 \/ audioBuffer.sampleRate <= 0))
    => result.status = "EmptyInputError"

\* The window loop has ended.
LoopEnded == pc \in {"merge", "done"}

\* The window starting at t has been evaluated: the loop variable starts at
\* 0, moves by the hop and has passed t.
Evaluated(t) == t % AnalysisHopDuration = 0 /\ t < time

\* C18: when the window loop has ended, a window has been evaluated at
\* exactly the start times t = 0, H, 2H, ... with t + W <= duration, the
\* one with t + W = duration included.
C18_WindowCoverage ==
  LoopEnded =>
    \A t \in 0 .. MaxSeconds + AnalysisWindowDuration :
      Evaluated(t) <=>
        (t % AnalysisHopDuration = 0 /\ t + AnalysisWindowDuration <= audioBuffer.duration)

\* What detectChordFromChroma returns for the window starting at t.
WindowResult(t) ==
  detectChordFromChroma(
    extractChromaFeatures(Slice(audioBuffer, t, t + AnalysisWindowDuration)))

AtLeast(a, b) == a.n * b.d >= b.n * a.d

RunStart(k) == k = 1 \/ chords[k].name # chords[k - 1].name

RunEnd(k) == k = Len(chords) \/ chords[k].name # chords[k + 1].name

RunStarts == {k \in 1 .. Len(chords) : RunStart(k)}

\* The end of the run that starts at s.
EndOfRun(s) ==
  CHOOSE e \in s .. Len(chords) : RunEnd(e) /\ \A x \in s .. e - 1 : ~RunEnd(x)

SameValue(a, b) == a.n * b.d = b.n * a.d

\* C20: the merge pass returns one segment per maximal run of equal-named
\* consecutive provisional segments, in order: the run's name, the start of
\* its first segment, the end of its last segment and its largest
\* confidence; nothing for an empty list, and the last run is there.
C20_MergeResult ==
  Returned =>
    /\ Len(result.chords) = Cardinality(RunStarts)
    /\ \A j \in 1 .. Len(result.chords) :
         LET s == CHOOSE x \in RunStarts :
                    Cardinality({y \in RunStarts : y < x}) = j - 1
             e == EndOfRun(s)
             c == result.chords[j]
         IN  /\ c.name = chords[s].name
             /\ c.time = chords[s].time
             /\ c.time + c.duration = chords[e].time + chords[e].duration
             /\ \E x \in s .. e : SameValue(c.confidence, chords[x].confidence)
             /\ \A x \in s .. e : AtLeast(c.confidence, chords[x].confidence)

\* A run of two or more segments whose first confidence is the largest was
\* merged, and it is not the only run.
C20_Witness ==
  /\ Returned
  /\ Len(result.chords) >= 2
  /\ \E k \in 1 .. Len(chords) - 1 :
       /\ chords[k].name = chords[k + 1].name
       /\ Greater(chords[k].confidence, chords[k + 1].confidence)

\* The chroma vector of the window starting at t.
WindowChroma(t) ==
  extractChromaFeatures(Slice(audioBuffer, t, t + AnalysisWindowDuration))

SilentThroughout ==
  \A k \in 1 .. Len(audioBuffer.channelData) : audioBuffer.channelData[k] = Silence

\* C21: a window whose chroma vector is all zero gets confidence 0 from
\* detectChordFromChroma and no provisional segment, and a buffer that is
\* silent throughout gives an empty chord list.
C21_DegenerateVector ==
  /\ pc = "windows" =>
       \A t \in 0 .. time - 1 :
         WindowChroma(t).v = ZeroVector =>
           /\ SameValue(detectChordFromChroma(WindowChroma(t)).confidence,
                        ZeroCorrelation)
           /\ \A k \in 1 .. Len(chords) : chords[k].time # t
  /\ (Returned /\ SilentThroughout) => result.chords = << >>

\* The analysis of four or more seconds of silence has returned.
C21_Witness ==
  /\ Returned
  /\ SilentThroughout
  /\ audioBuffer.sampleRate > 0
  /\ audioBuffer.duration >= 4
  /\ time >= 2

\* A segment with a start time of at least 0, a positive duration and a
\* confidence between 0 and 1.
InRange(c) ==
  /\ c.time >= 0
  /\ c.duration > 0
  /\ c.confidence.d > 0
  /\ c.confidence.n >= 0
  /\ c.confidence.n <= c.confidence.d

\* C26: every segment analyzeAudioBuffer returns has time >= 0, duration > 0
\* and a confidence in [0, 1], and so has every segment of the merge pass
\* on the way there.
C26_SegmentRanges ==
  /\ \A k \in 1 .. Len(merged) : InRange(merged[k])
  /\ currentChord # NoChord => InRange(currentChord)
  /\ Returned => \A k \in 1 .. Len(result.chords) : InRange(result.chords[k])

\* The returned list has a segment merged from several windows and a
\* segment whose confidence is below 1.
C26_Witness ==
  /\ Returned
  /\ \E k \in 1 .. Len(result.chords) :
       result.chords[k].duration > AnalysisWindowDuration
  /\ \E k \in 1 .. Len(result.chords) :
       result.chords[k].confidence.n < result.chords[k].confidence.d

\* The window loop takes another iteration: its condition holds and the
\* loop variable moves on (line 44).  Of the steps of Spec these are the
\* AnalyzeWindow steps.
WindowLoopRuns ==
  /\ pc = "windows"
  /\ LoopCondition(time, audioBuffer.duration)
  /\ time' = Advance(time)

\* analyzeAudioBuffer and mergeConsecutiveChords are synchronous code with
\* no await: a loop whose condition holds takes its next iteration, and the
\* statements after a loop are executed.
SpecLive ==
  /\ Spec
  /\ WF_time(WindowLoopRuns)
  /\ WF_vars(StartMerge \/ MergeStep \/ FinishMerge)

\* C17: the window loop and the merge pass terminate; the loop variable
\* moves by the hop on every iteration of the window loop, and the merge
\* pass moves to the next provisional segment on every iteration and has
\* visited all of them when it returns.
C17_Terminates ==
  /\ <>(pc = "done")
  /\ [][(pc = "windows" /\ pc' = "windows") => time' = time + AnalysisHopDuration]_vars
  /\ [][(pc = "merge" /\ pc' = "merge") => i' = i + 1]_vars
  /\ [](pc = "done" /\ Len(chords) > 0 => i = Len(chords))

\* The analysis returned after three or more windows and two or more
\* merge iterations.
C17_Witness ==
  /\ Returned
  /\ time >= 3
  /\ i >= 3

----------------------------------------------------------------------------
(* detectKey and its callers *)

keyProfiles == <<
  [key |-> "C",
   profile |-> ("C" :> 3 @@ "Dm" :> 2 @@ "Em" :> 2 @@ "F" :> 3 @@ "G" :> 3 @@ "Am" :> 2 @@ "Bdim" :> 1)],
  [key |-> "G",
   profile |-> ("G" :> 3 @@ "Am" :> 2 @@ "Bm" :> 2 @@ "C" :> 3 @@ "D" :> 3 @@ "Em" :> 2 @@ "F#dim" :> 1)],
  [key |-> "D",
   profile |-> ("D" :> 3 @@ "Em" :> 2 @@ "F#m" :> 2 @@ "G" :> 3 @@ "A" :> 3 @@ "Bm" :> 2 @@ "C#dim" :> 1)],
  [key |-> "A",
   profile |-> ("A" :> 3 @@ "Bm" :> 2 @@ "C#m" :> 2 @@ "D" :> 3 @@ "E" :> 3 @@ "F#m" :> 2 @@ "G#dim" :> 1)],
  [key |-> "E",
   profile |-> ("E" :> 3 @@ "F#m" :> 2 @@ "G#m" :> 2 @@ "A" :> 3 @@ "B" :> 3 @@ "C#m" :> 2 @@ "D#dim" :> 1)],
  [key |-> "B",
   profile |-> ("B" :> 3 @@ "C#m" :> 2 @@ "D#m" :> 2 @@ "E" :> 3 @@ "F#" :> 3 @@ "G#m" :> 2 @@ "A#dim" :> 1)],
  [key |-> "F#",
   profile |-> ("F#" :> 3 @@ "G#m" :> 2 @@ "A#m" :> 2 @@ "B" :> 3 @@ "C#" :> 3 @@ "D#m" :> 2 @@ "E#dim" :> 1)],
  [key |-> "F",
   profile |-> ("F" :> 3 @@ "Gm" :> 2 @@ "Am" :> 2 @@ "A#" :> 3 @@ "C" :> 3 @@ "Dm" :> 2 @@ "Edim" :> 1)],
  [key |-> "A#",
   profile |-> ("A#" :> 3 @@ "Cm" :> 2 @@ "Dm" :> 2 @@ "D#" :> 3 @@ "F" :> 3 @@ "Gm" :> 2 @@ "Adim" :> 1)],
  [key |-> "D#",
   profile |-> ("D#" :> 3 @@ "Fm" :> 2 @@ "Gm" :> 2 @@ "G#" :> 3 @@ "A#" :> 3 @@ "Cm" :> 2 @@ "Ddim" :> 1)],
  [key |-> "G#",
   profile |-> ("G#" :> 3 @@ "A#m" :> 2 @@ "Cm" :> 2 @@ "C#" :> 3 @@ "D#" :> 3 @@ "Fm" :> 2 @@ "Gdim" :> 1)],
  [key |-> "C#",
   profile |-> ("C#" :> 3 @@ "D#m" :> 2 @@ "Fm" :> 2 @@ "F#" :> 3 @@ "G#" :> 3 @@ "A#m" :> 2 @@ "Cdim" :> 1)],
  [key |-> "Am",
   profile |-> ("Am" :> 3 @@ "Bdim" :> 1 @@ "C" :> 3 @@ "Dm" :> 2 @@ "Em" :> 2 @@ "F" :> 3 @@ "G" :> 3)],
  [key |-> "Em",
   profile |-> ("Em" :> 3 @@ "F#dim" :> 1 @@ "G" :> 3 @@ "Am" :> 2 @@ "Bm" :> 2 @@ "C" :> 3 @@ "D" :> 3)],
  [key |-> "Bm",
   profile |-> ("Bm" :> 3 @@ "C#dim" :> 1 @@ "D" :> 3 @@ "Em" :> 2 @@ "F#m" :> 2 @@ "G" :> 3 @@ "A" :> 3)],
  [key |-> "F#m",
   profile |-> ("F#m" :> 3 @@ "G#dim" :> 1 @@ "A" :> 3 @@ "Bm" :> 2 @@ "C#m" :> 2 @@ "D" :> 3 @@ "E" :> 3)],
  [key |-> "C#m",
   profile |-> ("C#m" :> 3 @@ "D#dim" :> 1 @@ "E" :> 3 @@ "F#m" :> 2 @@ "G#m" :> 2 @@ "A" :> 3 @@ "B" :> 3)],
  [key |-> "G#m",
   profile |-> ("G#m" :> 3 @@ "A#dim" :> 1 @@ "B" :> 3 @@ "C#m" :> 2 @@ "D#m" :> 2 @@ "E" :> 3 @@ "F#" :> 3)],
  [key |-> "D#m",
   profile |-> ("D#m" :> 3 @@ "E#dim" :> 1 @@ "F#" :> 3 @@ "G#m" :> 2 @@ "A#m" :> 2 @@ "B" :> 3 @@ "C#" :> 3)],
  [key |-> "Dm",
   profile |-> ("Dm" :> 3 @@ "Edim" :> 1 @@ "F" :> 3 @@ "Gm" :> 2 @@ "Am" :> 2 @@ "A#" :> 3 @@ "C" :> 3)],
  [key |-> "Gm",
   profile |-> ("Gm" :> 3 @@ "Adim" :> 1 @@ "A#" :> 3 @@ "Cm" :> 2 @@ "Dm" :> 2 @@ "D#" :> 3 @@ "F" :> 3)],
  [key |-> "Cm",
   profile |-> ("Cm" :> 3 @@ "Ddim" :> 1 @@ "D#" :> 3 @@ "Fm" :> 2 @@ "Gm" :> 2 @@ "G#" :> 3 @@ "A#" :> 3)],
  [key |-> "Fm",
   profile |-> ("Fm" :> 3 @@ "Gdim" :> 1 @@ "G#" :> 3 @@ "A#m" :> 2 @@ "Cm" :> 2 @@ "C#" :> 3 @@ "D#" :> 3)],
  [key |-> "A#m",
   profile |-> ("A#m" :> 3 @@ "Cdim" :> 1 @@ "C#" :> 3 @@ "D#m" :> 2 @@ "Fm" :> 2 @@ "F#" :> 3 @@ "G#" :> 3)] >>

DefaultKey == "C"

\* chordCounts of lines 383-388: occurrences of each distinct chord name.
ChordCounts(names) ==
  [c \in {names[k] : k \in DOMAIN names} |->
     Cardinality({k \in DOMAIN names : names[k] = c})]

\* profile[chord] || 0.  WeightAtMostTwo is the variant in which no chord
\* weighs more than 2.
WeightAtMostTwo(profile, chord) ==
  IF chord \in DOMAIN profile
  THEN (IF profile[chord] > 2 THEN 2 ELSE profile[chord])
  ELSE 0
Weight(profile, chord) ==
  IF chord \in DOMAIN profile THEN profile[chord] ELSE 0

\* The weighted score of lines 391-394.
RECURSIVE WeightedScore(_, _, _)
WeightedScore(profile, chordCounts, todo) ==
  IF todo = {} THEN 0
  ELSE LET chord == CHOOSE c \in todo : TRUE
       IN  chordCounts[chord] * Weight(profile, chord)
             + WeightedScore(profile, chordCounts, todo \ {chord})

Score(profile, names) ==
  LET chordCounts == ChordCounts(names)
  IN  WeightedScore(profile, chordCounts, DOMAIN chordCounts)

\* score > bestScore, line 396.  ScoreBeatsOrEquals is the variant that
\* holds on an equal score too.
ScoreBeatsOrEquals(score, bestScore) == score >= bestScore
ScoreBeats(score, bestScore) == score > bestScore

\* The loop of lines 381-400 over the first e profiles.
RECURSIVE BestKey(_, _)
BestKey(names, e) ==
  IF e = 0 THEN [bestKey |-> "C", bestScore |-> 0]
  ELSE LET best  == BestKey(names, e - 1)
           score == Score(keyProfiles[e].profile, names)
       IN  IF ScoreBeats(score, best.bestScore)
           THEN [bestKey |-> keyProfiles[e].key, bestScore |-> score]
           ELSE best

detectKey(names) ==
  IF Len(names) = 0 THEN DefaultKey
  ELSE BestKey(names, Len(keyProfiles)).bestKey

\* Chord names the callers produce: progression templates of
\* generateRealisticChordProgression and a variation of addChordVariation.
ChordNames == {"C", "Am", "F", "G", "Cmaj7"}

InitKey ==
  /\ pc = "generate"
  /\ KeyIdle
  /\ AnalyzerIdle
  /\ MatcherIdle
  /\ OthersIdle

\* generateRealisticChordProgression pushes one more chord.
PushChord ==
  /\ pc = "generate"
  /\ Len(progression) < MaxChords
  /\ \E name \in ChordNames : progression' = Push(progression, name)
  /\ UNCHANGED <<pc, key, analyzerVars, matcherVars, otherVars>>

\* analyzeAudioWithAI, lines 40-46: the generated list is never empty.
AnalyzeAudioWithAI ==
  /\ pc = "generate"
  /\ Len(progression) > 0
  /\ key' = detectKey(progression)
  /\ pc' = "analysed"
  /\ UNCHANGED <<progression, analyzerVars, matcherVars, otherVars>>

\* analyzeChordProgression, line 477, on any chord list.
AnalyzeChordProgression ==
  /\ pc = "generate"
  /\ key' = detectKey(progression)
  /\ pc' = "summarised"
  /\ UNCHANGED <<progression, analyzerVars, matcherVars, otherVars>>

NextKey == PushChord \/ AnalyzeAudioWithAI \/ AnalyzeChordProgression

SpecKey == InitKey /\ [][NextKey]_vars

KeyStored == pc \in {"analysed", "summarised"}

ScenarioB == <<"C", "Am", "F">>

RECURSIVE Cycles(_)
Cycles(n) == IF n = 0 THEN << >> ELSE Cycles(n - 1) \o ScenarioB

NoteNames == <<"C", "C#", "D", "D#", "E", "F", "F#", "G", "G#", "A", "A#", "B">>

\* C6: for the sequence C, Am, F repeated one or more times the C major
\* profile wins: detectKey returns the key of the profile 'C'.
C6_ScenarioBKey ==
  (KeyStored /\ \E n \in 1 .. MaxChords : progression = Cycles(n))
    => key = keyProfiles[1].key

\* C9: for the empty chord sequence detectKey returns "C major".
C9_KeyDefault ==
  (KeyStored /\ progression = << >>) => key = "C major"

\* C10: the stored key is a root note name followed by "major" or "minor".
C10_KeyFormat ==
  KeyStored =>
    \E r \in 1 .. 12 :
      key \in {NoteNames[r] \o " major", NoteNames[r] \o " minor"}

----------------------------------------------------------------------------
(* detectKey as an exported function *)

\* Chord names handed to detectKey: names of the progression templates of
\* generateRealisticChordProgression in the keys of C and G, and one name
\* that no profile lists.
KeyChordNames == {"C", "Am", "F", "G", "Em", "D", "Cmaj7"}

InitDetectKey ==
  /\ pc = "detectKey"
  /\ progression \in SeqsUpTo(KeyChordNames, MaxNames)
  /\ key = ""
  /\ AnalyzerIdle
  /\ MatcherIdle
  /\ OthersIdle

\* detectKey(chords), lines 344-403.
DetectKey ==
  /\ pc = "detectKey"
  /\ key' = detectKey(progression)
  /\ pc' = "keyDetected"
  /\ UNCHANGED <<progression, analyzerVars, matcherVars, otherVars>>

NextDetectKey == DetectKey

SpecDetectKey == InitDetectKey /\ [][NextDetectKey]_vars

\* The score of profile number e for the sequence handed in: the sum over
\* the positions of the sequence of the weight of the chord at the position.
ProfileScore(e) ==
  SumSeq([k \in 1 .. Len(progression) |->
            IF progression[k] \in DOMAIN keyProfiles[e].profile
            THEN keyProfiles[e].profile[progression[k]] ELSE 0],
         Len(progression))

\* C23: for a non-empty chord sequence detectKey returns the key whose
\* profile has the largest weighted occurrence score, chords absent from a
\* profile counting 0, and the first enumerated among keys of equal score.
C23_BestProfile ==
  (pc = "keyDetected" /\ Len(progression) > 0) =>
    \E e \in 1 .. Len(keyProfiles) :
      /\ key = keyProfiles[e].key
      /\ \A f \in 1 .. Len(keyProfiles) : ProfileScore(f) <= ProfileScore(e)
      /\ \A f \in 1 .. e - 1 : ProfileScore(f) < ProfileScore(e)

\* A key was returned for a sequence on which several profiles share the
\* largest score and one chord is in no profile.
C23_Witness ==
  /\ pc = "keyDetected"
  /\ \E k \in 1 .. Len(progression) : progression[k] = "Cmaj7"
  /\ \E e \in 1 .. Len(keyProfiles) :
       /\ key = keyProfiles[e].key
       /\ ProfileScore(e) > 0
       /\ \E f \in e + 1 .. Len(keyProfiles) : ProfileScore(f) = ProfileScore(e)

\* The tonic chord of the relative minor of the major key on note number r:
\* the minor chord three semitones below.
RelativeMinorTonic(r) == NoteNames[((r + 8) % 12) + 1] \o "m"

\* C27: for each of the 12 major keys, the profile of the relative minor
\* lists the same chords with the same weights except for the minor tonic
\* chord (3 against 2), so it scores at least as much on every sequence, and
\* detectKey returns a major key only for a sequence without the tonic chord
\* of that key's relative minor.
C27_RelativeMinorWins ==
  \A r \in 1 .. 12 :
    \E e \in 1 .. Len(keyProfiles) :
      /\ keyProfiles[e].key = NoteNames[r]
      /\ \E f \in 1 .. Len(keyProfiles) :
           /\ keyProfiles[f].key = RelativeMinorTonic(r)
           /\ LET major == keyProfiles[e].profile
                  minor == keyProfiles[f].profile
                  tonic == RelativeMinorTonic(r)
              IN  /\ DOMAIN major = DOMAIN minor
                  /\ \A chord \in DOMAIN major \ {tonic} : major[chord] = minor[chord]
                  /\ tonic \in DOMAIN major
                  /\ major[tonic] = 2
                  /\ minor[tonic] = 3
                  /\ ProfileScore(f) >= ProfileScore(e)
                  /\ (pc = "keyDetected" /\ key = NoteNames[r]) =>
                       \A k \in 1 .. Len(progression) : progression[k] # tonic

\* detectKey returned G major for a sequence with a chord of A minor, which
\* is not the tonic of G major's relative minor.
C27_Witness ==
  /\ pc = "keyDetected"
  /\ key = "G"
  /\ \E k \in 1 .. Len(progression) : progression[k] = "Am"

----------------------------------------------------------------------------
(* detectChordFromChroma, one template per step *)

\* Normalised chroma vectors with at most MaxTones sounding pitch classes,
\* all at full strength.
ChromaVectors ==
  {[v |-> Tones(S), den |-> 1] :
     S \in {T \in SUBSET PitchClasses : Cardinality(T) <= MaxTones}}

InitMatcher ==
  /\ pc = "match"
  /\ chroma \in ChromaVectors
  /\ entry = 0
  /\ bestChord = "C"
  /\ bestCorrelation = ZeroCorrelation
  /\ detected = NoResult
  /\ AnalyzerIdle
  /\ KeyIdle
  /\ OthersIdle

\* Lines 182-188 for the next entry of chordTemplates.
MatchNext ==
  /\ pc = "match"
  /\ entry < Len(chordTemplates)
  /\ LET best == MatchTemplate([chord |-> bestChord, correlation |-> bestCorrelation],
                               chroma, entry + 1)
     IN  /\ bestChord' = best.chord
         /\ bestCorrelation' = best.correlation
  /\ entry' = entry + 1
  /\ UNCHANGED <<pc, chroma, detected, analyzerVars, keyVars,
               otherVars>>

\* Lines 190-193.
ReturnMatch ==
  /\ pc = "match"
  /\ entry = Len(chordTemplates)
  /\ detected' = [chord |-> bestChord,
                  confidence |-> MathMin(bestCorrelation, OneCorrelation)]
  /\ pc' = "matched"
  /\ UNCHANGED <<chroma, entry, bestChord, bestCorrelation, analyzerVars, keyVars,
               otherVars>>

NextMatcher == MatchNext \/ ReturnMatch

SpecMatcher == InitMatcher /\ [][NextMatcher]_vars

\* The pitch classes of the triad a chord name stands for.
TriadOf(name) ==
  LET r == CHOOSE q \in PitchClasses :
             name \in {NoteNames[q + 1], NoteNames[q + 1] \o "m"}
  IN  IF name = NoteNames[r + 1]
      THEN {r, (r + 4) % 12, (r + 7) % 12}
      ELSE {r, (r + 3) % 12, (r + 7) % 12}

\* C7: the bank holds 24 templates, and every template the matcher examines
\* marks exactly the three pitch classes of the triad it is named after.
C7_TemplatesAreTriads ==
  /\ Len(chordTemplates) = 24
  /\ entry \in 1 .. Len(chordTemplates) =>
       chordTemplates[entry].template = Tones(TriadOf(chordTemplates[entry].name))

\* C8: a chroma vector that is exactly the C major, A minor or F major triad
\* is labelled "C", "Am" and "F" respectively.
C8_ScenarioBLabels ==
  pc = "matched" =>
    /\ chroma.v = Tones({0, 4, 7}) => detected.chord = "C"
    /\ chroma.v = Tones({9, 0, 4}) => detected.chord = "Am"
    /\ chroma.v = Tones({5, 9, 0}) => detected.chord = "F"

\* The score of template number e against the vector being matched.
Similarity(e) == calculateCorrelation(chroma, chordTemplates[e].template)

Positive(a) == a.n * a.d > 0

\* Template number e has the largest score, and is the first that has it.
FirstMaximal(e) ==
  /\ \A f \in 1 .. Len(chordTemplates) :
       Similarity(f).n * Similarity(e).d <= Similarity(e).n * Similarity(f).d
  /\ \A f \in 1 .. e - 1 :
       Similarity(f).n * Similarity(e).d < Similarity(e).n * Similarity(f).d

\* C22: for a chroma vector with at least one positive score,
\* detectChordFromChroma returns the label of the template with the largest
\* cosine similarity, the first in enumeration order among equals, and as
\* confidence that largest score, at most 1.
C22_ArgMax ==
  (pc = "matched" /\ \E e \in 1 .. Len(chordTemplates) : Positive(Similarity(e))) =>
    \E e \in 1 .. Len(chordTemplates) :
      /\ FirstMaximal(e)
      /\ detected.chord = chordTemplates[e].name
      /\ detected.confidence.n * Similarity(e).d = Similarity(e).n * detected.confidence.d
      /\ detected.confidence.n <= detected.confidence.d

\* A match has returned for a vector on which two templates share the
\* largest score, below a perfect match.
C22_Witness ==
  /\ pc = "matched"
  /\ \E e \in 1 .. Len(chordTemplates) :
       /\ FirstMaximal(e)
       /\ Positive(Similarity(e))
       /\ Similarity(e).n < Similarity(e).d
       /\ detected.chord = chordTemplates[e].name
       /\ \E f \in e + 1 .. Len(chordTemplates) :
            /\ Similarity(f).n * Similarity(e).d = Similarity(e).n * Similarity(f).d
            /\ chordTemplates[f].name # chordTemplates[e].name

----------------------------------------------------------------------------
(* estimateTempo *)

\* Times are handed to estimateTempo in ticks of 1/8 s, which doubles hold
\* exactly; a BPM is the fraction n / d, d >= 0 (d = 0: Infinity).
TicksPerSecond == 8

Abs(x) == IF x < 0 THEN -x ELSE x

\* chords.length < 3, line 407.
TooFewOrTwo(times) == Len(times) < 2
TooFew(times) == Len(times) < 3

\* The inter-onset intervals of lines 410-413.
Intervals(times) == [k \in 1 .. Len(times) - 1 |-> times[k + 1] - times[k]]

\* |interval - mean| <= 2 * stdDev of lines 416-422, with mean = S / n and
\* stdDev = sqrt(Q / n^3), Q the sum of the squares of n * x - S: both sides
\* are squared and multiplied by n^3.
\* WithinTwoStdDevStrict is the variant that tests with < instead of <=.
WithinTwoStdDevStrict(interval, intervals) ==
  LET n == Len(intervals)
      S == SumSeq(intervals, n)
      Q == SumSeq([k \in 1 .. n |-> (n * intervals[k] - S) * (n * intervals[k] - S)], n)
  IN  n * (n * interval - S) * (n * interval - S) < 4 * Q
WithinTwoStdDev(interval, intervals) ==
  LET n == Len(intervals)
      S == SumSeq(intervals, n)
      Q == SumSeq([k \in 1 .. n |-> (n * intervals[k] - S) * (n * intervals[k] - S)], n)
  IN  n * (n * interval - S) * (n * interval - S) <= 4 * Q

filteredIntervals(intervals) ==
  SelectSeq(intervals, LAMBDA x : WithinTwoStdDev(x, intervals))

\* Lines 427-428.  medianIntervalLower is the variant that takes the lower
\* of the two middle values of an even number of intervals.
medianIntervalLower(filtered) ==
  LET sortedIntervals == SortSeq(filtered, LAMBDA a, b : a < b)
  IN  sortedIntervals[((Len(sortedIntervals) - 1) \div 2) + 1]
medianInterval(filtered) ==
  LET sortedIntervals == SortSeq(filtered, LAMBDA a, b : a < b)
  IN  sortedIntervals[(Len(sortedIntervals) \div 2) + 1]

\* 60 / medianInterval, line 431.
BeatsPerMinute(median) ==
  IF median >= 0 THEN [n |-> 60 * TicksPerSecond, d |-> median]
  ELSE [n |-> -60 * TicksPerSecond, d |-> -median]

\* if (bpm < 60) bpm *= 2, line 434.
HalfTimeTwice(bpm) == IF bpm.n < 60 * bpm.d THEN [n |-> 4 * bpm.n, d |-> bpm.d] ELSE bpm
HalfTime(bpm) == IF bpm.n < 60 * bpm.d THEN [n |-> 2 * bpm.n, d |-> bpm.d] ELSE bpm

\* if (bpm > 200) bpm /= 2, line 435.  DoubleTimeBelow is the variant with
\* the comparison reversed.
DoubleTimeBelow(bpm) == IF bpm.n < 200 * bpm.d THEN [n |-> bpm.n, d |-> 2 * bpm.d] ELSE bpm
DoubleTime(bpm) == IF bpm.n > 200 * bpm.d THEN [n |-> bpm.n, d |-> 2 * bpm.d] ELSE bpm

commonBPMs ==
  <<60, 65, 70, 75, 80, 85, 90, 95, 100, 105, 110, 115, 120, 125, 130, 135,
    140, 145, 150, 160, 170, 180>>

\* Math.abs(curr - bpm) < Math.abs(prev - bpm), both sides multiplied by d.
\* NearerSwapped is the variant with curr and prev exchanged.
NearerSwapped(curr, prev, bpm) ==
  Abs(prev * bpm.d - bpm.n) < Abs(curr * bpm.d - bpm.n)
Nearer(curr, prev, bpm) ==
  Abs(curr * bpm.d - bpm.n) < Abs(prev * bpm.d - bpm.n)

\* commonBPMs.reduce of lines 439-441 over the first k entries.
RECURSIVE Reduce(_, _)
Reduce(bpm, k) ==
  IF k = 1 THEN commonBPMs[1]
  ELSE LET prev == Reduce(bpm, k - 1)
       IN  IF Nearer(commonBPMs[k], prev, bpm) THEN commonBPMs[k] ELSE prev

estimateTempo(times) ==
  IF TooFew(times) THEN 120
  ELSE LET filtered == filteredIntervals(Intervals(times))
       IN  IF Len(filtered) = 0 THEN 120
           ELSE Reduce(DoubleTime(HalfTime(BeatsPerMinute(medianInterval(filtered)))),
                       Len(commonBPMs))

\* Inter-onset intervals in ticks: 0.25 s, 0.375 s, 1 s, 2 s and 3 s.
OnsetIntervals == {2, 3, 8, 16, 24}

\* Start times of the first chord, in ticks.
FirstOnsets == {0, 4}

RECURSIVE OnsetLists(_)
OnsetLists(n) ==
  IF n = 0 THEN {<< >>}
  ELSE IF n = 1 THEN {<< >>} \cup {<<t>> : t \in FirstOnsets}
  ELSE LET shorter == OnsetLists(n - 1)
       IN  shorter \cup
             {Append(s, s[Len(s)] + d) :
                s \in {q \in shorter : Len(q) = n - 1}, d \in OnsetIntervals}

InitTempo ==
  /\ pc = "tempo"
  /\ onsets \in OnsetLists(MaxOnsets)
  /\ tempo = 0
  /\ AnalyzerIdle
  /\ KeyIdle
  /\ MatcherIdle
  /\ ChromaIdle
  /\ CorrelationIdle
  /\ TwiceIdle
  /\ PairIdle
  /\ StepsIdle
  /\ PreviewIdle

\* estimateTempo, lines 406-442, on the chords that start at onsets.
EstimateTempo ==
  /\ pc = "tempo"
  /\ tempo' = estimateTempo(onsets)
  /\ pc' = "estimated"
  /\ UNCHANGED <<onsets, analyzerVars, keyVars, matcherVars, audioSamples,
                 correlationVars, twiceVars, pairVars,
                 stepVars, previewVars>>

NextTempo == EstimateTempo

SpecTempo == InitTempo /\ [][NextTempo]_vars

\* C11: for a chord sequence of fewer than 3 segments estimateTempo returns
\* 120, whatever the start times.
C11_TempoDefault ==
  (pc = "estimated" /\ Len(onsets) < 3) => tempo = 120

\* estimateTempo has returned for two chords that start 1 s apart.
C11_Witness ==
  /\ pc = "estimated"
  /\ Len(onsets) = 2
  /\ onsets[2] - onsets[1] = TicksPerSecond

EquallySpaced(times, d) ==
  \A k \in 1 .. Len(times) - 1 : times[k + 1] - times[k] = d

\* C12: for three or more segments whose start times are 2 s apart
\* estimateTempo returns 60.
C12_ScenarioCTempo ==
  (pc = "estimated" /\ Len(onsets) >= 3 /\ EquallySpaced(onsets, 2 * TicksPerSecond))
    => tempo = 60

\* estimateTempo has returned for the start times 0, 2, 4, 6, 8 s.
C12_Witness ==
  /\ pc = "estimated"
  /\ Len(onsets) = 5
  /\ onsets[1] = 0
  /\ EquallySpaced(onsets, 2 * TicksPerSecond)

----------------------------------------------------------------------------
(* estimateTempo, one statement group per step *)

\* Inter-onset intervals in ticks: 0.25 s, 1 s and 3 s.  On lists of these
\* the doubles of lines 416-422 decide every comparison as the exact values
\* do.
StepIntervals == {2, 8, 24}

RECURSIVE StepOnsetLists(_)
StepOnsetLists(n) ==
  IF n = 0 THEN {<< >>}
  ELSE IF n = 1 THEN {<< >>} \cup {<<t>> : t \in FirstOnsets}
  ELSE LET shorter == StepOnsetLists(n - 1)
       IN  shorter \cup
             {Append(s, s[Len(s)] + d) :
                s \in {q \in shorter : Len(q) = n - 1}, d \in StepIntervals}

InitSteps ==
  /\ pc = "intervals"
  /\ onsets \in StepOnsetLists(MaxSegments)
  /\ tempo = 0
  /\ StepsIdle
  /\ AnalyzerIdle
  /\ KeyIdle
  /\ MatcherIdle
  /\ ChromaIdle
  /\ CorrelationIdle
  /\ TwiceIdle
  /\ PairIdle
  /\ PreviewIdle

StepsUnchanged ==
  UNCHANGED <<onsets, analyzerVars, keyVars, matcherVars, audioSamples,
              correlationVars, twiceVars, pairVars, previewVars>>

\* Line 407.
ReturnDefault ==
  /\ pc = "intervals"
  /\ TooFew(onsets)
  /\ tempo' = 120
  /\ pc' = "returned"
  /\ UNCHANGED stepVars
  /\ StepsUnchanged

\* Lines 410-422.
RemoveOutliers ==
  /\ pc = "intervals"
  /\ ~TooFew(onsets)
  /\ surviving' = filteredIntervals(Intervals(onsets))
  /\ pc' = "filtered"
  /\ UNCHANGED <<tempo, rawBpm, currentBpm>>
  /\ StepsUnchanged

\* Lines 424-431: the fallback, or the sort in place, the median and the
\* conversion to BPM.
TakeMedian ==
  /\ pc = "filtered"
  /\ IF Len(surviving) = 0
     THEN /\ tempo' = 120
          /\ pc' = "returned"
          /\ UNCHANGED stepVars
     ELSE /\ surviving' = SortSeq(surviving, LAMBDA a, b : a < b)
          /\ rawBpm' = BeatsPerMinute(medianInterval(surviving))
          /\ currentBpm' = rawBpm'
          /\ pc' = "raw"
          /\ UNCHANGED tempo
  /\ StepsUnchanged

\* Line 434.
HandleHalfTime ==
  /\ pc = "raw"
  /\ currentBpm' = HalfTime(currentBpm)
  /\ pc' = "half"
  /\ UNCHANGED <<tempo, surviving, rawBpm>>
  /\ StepsUnchanged

\* Line 435.
HandleDoubleTime ==
  /\ pc = "half"
  /\ currentBpm' = DoubleTime(currentBpm)
  /\ pc' = "corrected"
  /\ UNCHANGED <<tempo, surviving, rawBpm>>
  /\ StepsUnchanged

\* Lines 438-441.
RoundToCommon ==
  /\ pc = "corrected"
  /\ tempo' = Reduce(currentBpm, Len(commonBPMs))
  /\ pc' = "returned"
  /\ UNCHANGED stepVars
  /\ StepsUnchanged

NextSteps ==
  \/ ReturnDefault
  \/ RemoveOutliers
  \/ TakeMedian
  \/ HandleHalfTime
  \/ HandleDoubleTime
  \/ RoundToCommon

SpecSteps == InitSteps /\ [][NextSteps]_vars

\* C24: for three or more segments the result is a member of the common-BPM
\* list, and no member of the list is strictly closer to the
\* octave-corrected BPM than the result.
C24_NearestCommon ==
  (pc = "returned" /\ Len(onsets) >= 3) =>
    /\ \E k \in 1 .. Len(commonBPMs) : tempo = commonBPMs[k]
    /\ tempo >= 60
    /\ tempo <= 180
    /\ Len(surviving) > 0 =>
         \A k \in 1 .. Len(commonBPMs) :
           Abs(commonBPMs[k] * currentBpm.d - currentBpm.n)
             >= Abs(tempo * currentBpm.d - currentBpm.n)

\* A tempo was returned for an octave-corrected BPM that is not itself in
\* the list.
C24_Witness ==
  /\ pc = "returned"
  /\ Len(onsets) >= 3
  /\ Len(surviving) > 0
  /\ tempo * currentBpm.d # currentBpm.n

\* C25: the raw BPM is doubled once when below 60, halved once when above
\* 200 and left alone in between, and never both doubled and halved.
C25_OctaveCorrection ==
  /\ pc = "half" =>
       /\ rawBpm.n < 60 * rawBpm.d => currentBpm.n * rawBpm.d = 2 * rawBpm.n * currentBpm.d
       /\ rawBpm.n >= 60 * rawBpm.d => currentBpm = rawBpm
  /\ (pc \in {"corrected", "returned"} /\ Len(surviving) > 0) =>
       /\ rawBpm.n < 60 * rawBpm.d => currentBpm.n * rawBpm.d = 2 * rawBpm.n * currentBpm.d
       /\ rawBpm.n > 200 * rawBpm.d => 2 * currentBpm.n * rawBpm.d = rawBpm.n * currentBpm.d
       /\ (rawBpm.n >= 60 * rawBpm.d /\ rawBpm.n <= 200 * rawBpm.d) => currentBpm = rawBpm

\* The octave correction has halved a raw BPM above 200.
C25_Witness ==
  /\ pc = "corrected"
  /\ rawBpm.n > 200 * rawBpm.d
  /\ currentBpm # rawBpm

C29_MedianIndex ==
  pc = "raw" =>
    LET n == Len(surviving)
        m == IF n % 2 = 1 THEN surviving[((n + 1) \div 2)]
             ELSE surviving[(n \div 2) + 1]
    IN  /\ \A k \in 1 .. n - 1 : surviving[k] <= surviving[k + 1]
        /\ rawBpm.n * m = 60 * TicksPerSecond * rawBpm.d

\* The BPM was computed from an even number of intervals whose two middle
\* values differ.
C29_Witness ==
  /\ pc = "raw"
  /\ Len(surviving) % 2 = 0
  /\ surviving[Len(surviving) \div 2] < surviving[(Len(surviving) \div 2) + 1]

----------------------------------------------------------------------------
(* extractChromaFeatures on sample blocks *)

\* The samples handed to extractChromaFeatures are counted in blocks of half
\* an FFT frame: a frame is windowSize = 2 blocks (4096 samples).  A block
\* is represented by the energy, per pitch class, that the frame holding it
\* accumulates from it.
windowSize == 2

\* The energy of the frames of lines 73-78: numWindows whole frames, the
\* samples after the last whole frame are not read.
WholeWindows(audioData) ==
  LET numWindows == Len(audioData) \div windowSize
  IN  [w \in 1 .. numWindows |->
         Accumulate(SubSeq(audioData, (w - 1) * windowSize + 1, w * windowSize),
                    windowSize)]

InitChroma ==
  /\ pc = "chroma"
  /\ audioSamples \in SeqsUpTo(FrameEnergies, MaxBlocks)
  /\ AnalyzerIdle
  /\ KeyIdle
  /\ MatcherIdle
  /\ TempoIdle
  /\ CorrelationIdle
  /\ TwiceIdle
  /\ PairIdle
  /\ StepsIdle
  /\ PreviewIdle

\* extractChromaFeatures, lines 70-104; chroma holds the returned vector.
ExtractChromaFeatures ==
  /\ pc = "chroma"
  /\ chroma' = extractChromaFeatures(WholeWindows(audioSamples))
  /\ pc' = "extracted"
  /\ UNCHANGED <<audioSamples, entry, bestChord, bestCorrelation, detected,
                 analyzerVars, keyVars, tempoVars, correlationVars, twiceVars,
                 pairVars,
                 stepVars, previewVars>>

NextChroma == ExtractChromaFeatures

SpecChroma == InitChroma /\ [][NextChroma]_vars

\* C16: the returned chroma vector has 12 entries, all >= 0; its largest
\* entry is exactly 1 when the window is not silent, and all its entries
\* are 0 when the window is silent.
C16_ChromaNormalised ==
  pc = "extracted" =>
    /\ DOMAIN chroma.v = 1 .. 12
    /\ chroma.den > 0
    /\ \A p \in 1 .. 12 : chroma.v[p] >= 0
    /\ (\E k \in 1 .. Len(audioSamples) : audioSamples[k] # Silence)
         => Max12(chroma.v, 12) = chroma.den
    /\ (\A k \in 1 .. Len(audioSamples) : audioSamples[k] = Silence)
         => chroma.v = ZeroVector

----------------------------------------------------------------------------
(* Two successive analyses of the same waveform *)

\* const chords = [] (line 36) and const merged = [] (line 229): a call
\* starts from new, empty arrays, whatever an earlier call left in its own.
KeptArray(old) == old
NewArray(old) == << >>

\* chords.map(c => c.name), line 477.
Names(chordList) == [k \in 1 .. Len(chordList) |-> chordList[k].name]

\* The start times estimateTempo reads (line 412), in ticks.
Ticks(chordList) ==
  [k \in 1 .. Len(chordList) |-> chordList[k].time * TicksPerSecond]

InitTwice == Init

\* analyzeChordProgression, lines 477-478, on the list the analysis returned.
SummariseAnalysis ==
  /\ pc = "done"
  /\ key' = detectKey(Names(result.chords))
  /\ tempo' = estimateTempo(Ticks(result.chords))
  /\ pc' = "reported"
  /\ UNCHANGED <<analyzerVars, progression, onsets, matcherVars, audioSamples,
                 correlationVars, twiceVars, pairVars,
                 stepVars, previewVars>>

\* analyzeAudioBuffer is called again on the same buffer, lines 26-41: what
\* the first call returned is kept for comparison, and the locals of the new
\* call are initialised by its own declarations.
AnalyzeAgain ==
  /\ pc = "reported"
  /\ run = 1
  /\ first' = [chords |-> result.chords, key |-> key, tempo |-> tempo]
  /\ run' = 2
  /\ pc' = "windows"
  /\ time' = 0
  /\ chords' = NewArray(chords)
  /\ merged' = NewArray(merged)
  /\ i' = 0
  /\ currentChord' = NoChord
  /\ result' = Pending
  /\ key' = ""
  /\ tempo' = 0
  /\ UNCHANGED <<audioBuffer, progression, onsets, matcherVars, audioSamples,
                 correlationVars, pairVars,
                 stepVars, previewVars>>

NextTwice == Next \/ SummariseAnalysis \/ AnalyzeAgain

SpecTwice == InitTwice /\ [][NextTwice]_vars

\* C13: the second analysis of a waveform returns the chord list, key and
\* tempo that the first analysis of it returned.
C13_Deterministic ==
  (pc = "reported" /\ run = 2) =>
    /\ result.chords = first.chords
    /\ key = first.key
    /\ tempo = first.tempo

\* Both analyses have returned, with two or more segments, one of them
\* merged.
C13_Witness ==
  /\ pc = "reported"
  /\ run = 2
  /\ Len(first.chords) >= 2
  /\ Len(first.chords) < Len(chords)

----------------------------------------------------------------------------
(* Two concurrent analyses *)

Invocations == {1, 2}

\* Every call of analyzeAudioBuffer has its own activation: its locals
\* (lines 26-41, 44, 229, 236) are stored per invocation.
SharedStore(p) == 1
StoreOf(p) == p

\* The locals of a call that has just started, lines 36-44.
StartLocals ==
  [pc |-> "windows", time |-> 0, chords |-> << >>, i |-> 0,
   currentChord |-> NoChord, merged |-> << >>, result |-> Pending]

\* One iteration of the window loop, lines 44-63, on the locals l.
WindowStep(l, buffer) ==
  LET windowData   == Slice(buffer, l.time, l.time + AnalysisWindowDuration)
      chromaVector == extractChromaFeatures(windowData)
      chordResult  == detectChordFromChroma(chromaVector)
  IN  [l EXCEPT
         !.chords = IF Confident(chordResult.confidence)
                    THEN Push(l.chords, Detection(chordResult, l.time))
                    ELSE l.chords,
         !.time = Advance(l.time)]

\* Lines 66 and 227-236.
StartMergeStep(l) ==
  IF Len(l.chords) = 0
  THEN [l EXCEPT !.pc = "done",
                 !.result = [status |-> "resolved", chords |-> << >>]]
  ELSE [l EXCEPT !.pc = "merge", !.currentChord = l.chords[1], !.i = 1]

\* One iteration of the merge loop, lines 238-248.
MergeLoopStep(l) ==
  IF SameChord(l.chords[l.i + 1], l.currentChord)
  THEN [l EXCEPT !.currentChord = Extend(l.currentChord, l.chords[l.i + 1]),
                 !.i = l.i + 1]
  ELSE [l EXCEPT !.merged = Push(l.merged, l.currentChord),
                 !.currentChord = l.chords[l.i + 1],
                 !.i = l.i + 1]

\* Lines 250-251.
FinishMergeStep(l) ==
  [l EXCEPT !.merged = Push(l.merged, l.currentChord),
            !.result = [status |-> "resolved",
                        chords |-> Push(l.merged, l.currentChord)],
            !.pc = "done"]

\* The whole call on one buffer, with nothing else running.
RECURSIVE RunAlone(_, _)
RunAlone(l, buffer) ==
  IF l.pc = "done" THEN l.result
  ELSE IF l.pc = "windows"
       THEN IF LoopCondition(l.time, buffer.duration)
            THEN RunAlone(WindowStep(l, buffer), buffer)
            ELSE RunAlone(StartMergeStep(l), buffer)
       ELSE IF l.i < Len(l.chords)
            THEN RunAlone(MergeLoopStep(l), buffer)
            ELSE RunAlone(FinishMergeStep(l), buffer)

PairEnergies == {Tones({0, 4, 7}), Tones({5, 9, 0})}

\* Buffers of PairSeconds seconds.
PairBuffers ==
  {[sampleRate |-> 44100, duration |-> Len(d), channelData |-> d] :
     d \in {q \in SeqsUpTo(PairEnergies, PairSeconds) : Len(q) = PairSeconds}}

InitPair ==
  /\ pc = "pair"
  /\ waveforms \in [Invocations -> PairBuffers]
  /\ locals = [s \in Invocations |-> StartLocals]
  /\ AnalyzerIdle
  /\ KeyIdle
  /\ MatcherIdle
  /\ TempoIdle
  /\ ChromaIdle
  /\ CorrelationIdle
  /\ TwiceIdle
  /\ StepsIdle
  /\ PreviewIdle

PairUnchanged ==
  UNCHANGED <<pc, waveforms, analyzerVars, keyVars, matcherVars, tempoVars,
              audioSamples, correlationVars, twiceVars,
                 stepVars, previewVars>>

PairAnalyzeWindow(p) ==
  /\ locals[StoreOf(p)].pc = "windows"
  /\ LoopCondition(locals[StoreOf(p)].time, waveforms[p].duration)
  /\ locals' = [locals EXCEPT ![StoreOf(p)] = WindowStep(@, waveforms[p])]
  /\ PairUnchanged

PairStartMerge(p) ==
  /\ locals[StoreOf(p)].pc = "windows"
  /\ ~LoopCondition(locals[StoreOf(p)].time, waveforms[p].duration)
  /\ locals' = [locals EXCEPT ![StoreOf(p)] = StartMergeStep(@)]
  /\ PairUnchanged

PairMergeStep(p) ==
  /\ locals[StoreOf(p)].pc = "merge"
  /\ locals[StoreOf(p)].i < Len(locals[StoreOf(p)].chords)
  /\ locals' = [locals EXCEPT ![StoreOf(p)] = MergeLoopStep(@)]
  /\ PairUnchanged

PairFinishMerge(p) ==
  /\ locals[StoreOf(p)].pc = "merge"
  /\ ~(locals[StoreOf(p)].i < Len(locals[StoreOf(p)].chords))
  /\ locals' = [locals EXCEPT ![StoreOf(p)] = FinishMergeStep(@)]
  /\ PairUnchanged

NextPair ==
  \E p \in Invocations :
    \/ PairAnalyzeWindow(p)
    \/ PairStartMerge(p)
    \/ PairMergeStep(p)
    \/ PairFinishMerge(p)

SpecPair == InitPair /\ [][NextPair]_vars

\* C14: under every interleaving of the steps of two analyses, an analysis
\* that has returned has returned what it returns when run alone on its
\* buffer.
C14_Independent ==
  pc = "pair" =>
    \A p \in Invocations :
      locals[StoreOf(p)].pc = "done" =>
        locals[StoreOf(p)].result = RunAlone(StartLocals, waveforms[p])

\* Both analyses have returned, on different buffers, each after a merge,
\* and one of them returned before the other had finished its windows.
C14_Witness ==
  /\ pc = "pair"
  /\ waveforms[1] # waveforms[2]
  /\ \A p \in Invocations :
       /\ locals[p].pc = "done"
       /\ Len(locals[p].result.chords) < Len(locals[p].chords)

----------------------------------------------------------------------------
(* calculateCorrelation in floating point *)

\* The JavaScript numbers of calculateCorrelation are IEEE 754 doubles:
\* every operation returns the exact result rounded to the nearest value
\* with a 53-bit significand, ties to even.  The model keeps the rounding
\* rule and narrows the significand to MantissaBits bits, so that the exact
\* products fit the integers of the model checker.  A number is m * 2^e
\* with 2^(MantissaBits-1) <= m < 2^MantissaBits, or m = 0.  With 9 bits, as
\* with 53, the square root of 3 is rounded down and its square rounds to a
\* value below 3.
MantissaBits == 9

RECURSIVE Pow2(_)
Pow2(k) == IF k = 0 THEN 1 ELSE 2 * Pow2(k - 1)

RECURSIVE BitLength(_)
BitLength(n) == IF n = 0 THEN 0 ELSE 1 + BitLength(n \div 2)

\* The exact value n * 2^e, n >= 0, rounded to nearest, ties to even.
Round(n, e) ==
  IF n = 0 THEN [m |-> 0, e |-> 0]
  ELSE LET b == BitLength(n)
       IN  IF b <= MantissaBits
           THEN [m |-> n * Pow2(MantissaBits - b), e |-> e - (MantissaBits - b)]
           ELSE LET s    == b - MantissaBits
                    q    == n \div Pow2(s)
                    r    == n % Pow2(s)
                    half == Pow2(s - 1)
                    up   == r > half \/ (r = half /\ q % 2 = 1)
                    m    == IF up THEN q + 1 ELSE q
                IN  IF m = Pow2(MantissaBits)
                    THEN [m |-> Pow2(MantissaBits - 1), e |-> e + s + 1]
                    ELSE [m |-> m, e |-> e + s]

\* A small integer as a double (exact).
FromInt(n) == Round(n, 0)

\* a * b: the exact product, rounded.
Multiply(a, b) == Round(a.m * b.m, a.e + b.e)

\* a / b for a, b > 0: the quotient to MantissaBits + 2 bits or more and a
\* last bit that tells whether anything remains, rounded.
Divide(a, b) ==
  LET n == a.m * Pow2(MantissaBits + 2)
      q == n \div b.m
      sticky == IF n % b.m = 0 THEN 0 ELSE 1
  IN  Round(2 * q + sticky, a.e - b.e - MantissaBits - 3)

\* The largest q with q * q <= n, found bit by bit from 2^k down.
RECURSIVE IntegerSqrt(_, _, _)
IntegerSqrt(n, k, q) ==
  IF k < 0 THEN q
  ELSE LET t == q + Pow2(k)
       IN  IF t * t <= n THEN IntegerSqrt(n, k - 1, t) ELSE IntegerSqrt(n, k - 1, q)

\* Math.sqrt(a) for a > 0: the root of m * 2^k, k chosen to make the
\* remaining exponent even, to MantissaBits + 2 bits or more and a last bit
\* that tells whether the root is inexact, rounded.
MathSqrt(a) ==
  IF a.m = 0 THEN a
  ELSE LET k == IF (a.e - MantissaBits - 3) % 2 = 0
                THEN MantissaBits + 3 ELSE MantissaBits + 4
           n == a.m * Pow2(k)
           q == IntegerSqrt(n, MantissaBits + 2, 0)
           sticky == IF q * q = n THEN 0 ELSE 1
       IN  Round(2 * q + sticky, ((a.e - k) \div 2) - 1)

\* a < b for a, b >= 0.
LessThan(a, b) ==
  IF b.m = 0 THEN FALSE
  ELSE IF a.m = 0 THEN TRUE
  ELSE a.e < b.e \/ (a.e = b.e /\ a.m < b.m)

\* calculateCorrelation, lines 197-213, on a chroma vector with entries 0
\* and 1 (c.den = 1): the sums of lines 203-205 are integers up to 12, which
\* the format holds exactly, and the quotient of line 212 is rounded three
\* times.
calculateCorrelationDouble(c, template) ==
  LET dotProduct        == Sum12([p \in 1 .. 12 |-> c.v[p] * template[p]], 12)
      chromaMagnitude   == Sum12([p \in 1 .. 12 |-> c.v[p] * c.v[p]], 12)
      templateMagnitude == Sum12([p \in 1 .. 12 |-> template[p] * template[p]], 12)
  IN  IF chromaMagnitude = 0 \/ templateMagnitude = 0
      THEN FromInt(0)
      ELSE Divide(FromInt(dotProduct),
                  Multiply(MathSqrt(FromInt(chromaMagnitude)),
                           MathSqrt(FromInt(templateMagnitude))))

InitCorrelation ==
  /\ pc = "correlate"
  /\ chroma \in ChromaVectors
  /\ templateEntry \in 1 .. Len(chordTemplates)
  /\ cosine = FromInt(0)
  /\ entry = 0
  /\ bestChord = ""
  /\ bestCorrelation = ZeroCorrelation
  /\ detected = NoResult
  /\ AnalyzerIdle
  /\ KeyIdle
  /\ TempoIdle
  /\ ChromaIdle
  /\ TwiceIdle
  /\ PairIdle
  /\ StepsIdle
  /\ PreviewIdle

\* calculateCorrelation(chroma, template), as called at line 183.
CalculateCorrelation ==
  /\ pc = "correlate"
  /\ cosine' = calculateCorrelationDouble(chroma, chordTemplates[templateEntry].template)
  /\ pc' = "correlated"
  /\ UNCHANGED <<templateEntry, matcherVars, analyzerVars, keyVars, tempoVars,
                 audioSamples, twiceVars, pairVars,
                 stepVars, previewVars>>

NextCorrelation == CalculateCorrelation

SpecCorrelation == InitCorrelation /\ [][NextCorrelation]_vars

\* C15: for a chroma vector with non-negative entries and a template of the
\* bank, calculateCorrelation returns a value in [0, 1], and exactly 0 when
\* the chroma vector has norm 0.
C15_CorrelationBounds ==
  pc = "correlated" =>
    /\ cosine.m >= 0
    /\ ~LessThan(FromInt(1), cosine)
    /\ chroma.v = ZeroVector => cosine = FromInt(0)

----------------------------------------------------------------------------
(* transposeChord and the transpose and capo controls of the preview page *)

\* A chord name is the sequence of its characters.
notes ==
  << <<"C">>, <<"C", "#">>, <<"D">>, <<"D", "#">>, <<"E">>, <<"F">>,
     <<"F", "#">>, <<"G">>, <<"G", "#">>, <<"A">>, <<"A", "#">>, <<"B">> >>

\* What string concatenation makes of the value undefined.
Undefined == <<"u", "n", "d", "e", "f", "i", "n", "e", "d">>

\* chord.match(/^[A-G]#?/)?.[0] || 'C'
RootOf(chord) ==
  IF Len(chord) >= 1 /\ chord[1] \in {"A", "B", "C", "D", "E", "F", "G"}
  THEN IF Len(chord) >= 2 /\ chord[2] = "#"
       THEN <<chord[1], "#">>
       ELSE <<chord[1]>>
  ELSE <<"C">>

\* chord.slice(root.length)
SuffixOf(chord) == SubSeq(chord, Len(RootOf(chord)) + 1, Len(chord))

\* notes.indexOf(root): the position counted from 0, or -1.
IndexOf(root) ==
  IF \E k \in 1 .. Len(notes) : notes[k] = root
  THEN (CHOOSE k \in 1 .. Len(notes) : notes[k] = root) - 1
  ELSE -1

\* a % b of JavaScript for b > 0: the remainder has the sign of a.
Remainder(a, b) == IF a >= 0 THEN a % b ELSE -((-a) % b)

\* notes[newIndex] + suffix: an index outside the array reads undefined.
NoteAt(newIndex) ==
  IF newIndex \in 0 .. Len(notes) - 1 THEN notes[newIndex + 1] ELSE Undefined

transposeChord(chord, semitones) ==
  LET currentIndex == IndexOf(RootOf(chord))
      newIndex     == Remainder(currentIndex + semitones + 12, 12)
  IN  NoteAt(newIndex) \o SuffixOf(chord)

\* getTransposedChords for one chord of the analysis, showSimplified false.
getTransposedChords(name, transposeBy, capo) ==
  LET totalTranspose == transposeBy - capo
  IN  IF totalTranspose = 0 THEN name ELSE transposeChord(name, totalTranspose)

\* Chord names of an analysis: every root of the note list, as a major
\* chord, a minor chord and a major seventh chord.
ChordSuffixes == {<< >>, <<"m">>, <<"m", "a", "j", "7">>}

PreviewChords == {notes[k] \o s : k \in 1 .. Len(notes), s \in ChordSuffixes}

\* The items of the capo select.
CapoPositions == 0 .. 7

\* The first render, with the initial values of useState.
InitPreview ==
  /\ pc = "mounted"
  /\ transpose = 0
  /\ capoPosition = 0
  /\ chordName \in PreviewChords
  /\ transposedName = getTransposedChords(chordName, 0, 0)
  /\ AnalyzerIdle
  /\ KeyIdle
  /\ MatcherIdle
  /\ TempoIdle
  /\ ChromaIdle
  /\ CorrelationIdle
  /\ TwiceIdle
  /\ PairIdle
  /\ StepsIdle

Mounted == pc \in {"mounted", "updated"}

PreviewUnchanged ==
  UNCHANGED <<chordName, analyzerVars, keyVars, matcherVars, tempoVars,
              audioSamples, correlationVars, twiceVars, pairVars, stepVars>>

\* The left button, enabled unless transpose <= -6, and the render it causes.
TransposeDown ==
  /\ Mounted
  /\ pc' = "updated"
  /\ ~(transpose <= -6)
  /\ transpose' = transpose - 1
  /\ transposedName' = getTransposedChords(chordName, transpose', capoPosition)
  /\ UNCHANGED capoPosition
  /\ PreviewUnchanged

\* The right button, enabled unless transpose >= 6.
TransposeUp ==
  /\ Mounted
  /\ pc' = "updated"
  /\ ~(transpose >= 6)
  /\ transpose' = transpose + 1
  /\ transposedName' = getTransposedChords(chordName, transpose', capoPosition)
  /\ UNCHANGED capoPosition
  /\ PreviewUnchanged

\* The Reset button.
ResetTranspose ==
  /\ Mounted
  /\ pc' = "updated"
  /\ transpose' = 0
  /\ transposedName' = getTransposedChords(chordName, 0, capoPosition)
  /\ UNCHANGED capoPosition
  /\ PreviewUnchanged

\* The capo select: setCapoPosition(parseInt(v)) for the item chosen.
SetCapoPosition ==
  /\ Mounted
  /\ pc' = "updated"
  /\ \E v \in CapoPositions :
       /\ capoPosition' = v
       /\ transposedName' = getTransposedChords(chordName, transpose, v)
  /\ UNCHANGED transpose
  /\ PreviewUnchanged

NextPreview == TransposeDown \/ TransposeUp \/ ResetTranspose \/ SetCapoPosition

SpecPreview == InitPreview /\ [][NextPreview]_vars

\* C30: for a chord whose root is one of the 12 note names and every shift
\* the controls reach (transpose minus capo position), the name shown is the
\* note at index (rootIndex + shift) mod 12 followed by the unchanged suffix.
C30_TransposeInRange ==
  Mounted =>
    LET shift     == transpose - capoPosition
        rootIndex == IndexOf(RootOf(chordName))
    IN  /\ rootIndex \in 0 .. 11
        /\ transposedName = notes[((rootIndex + shift) % 12) + 1] \o SuffixOf(chordName)

====
